---- MODULE Spec2Model ----
(***************************************************************************)
(* A model of odbc2parquet's transcoding core:                             *)
(*   - insert (src/src/insert.rs): parquet file -> parameterized INSERT,   *)
(*   - parquet_type_to_odbc_buffer_desc (src/src/insert.rs),               *)
(*   - ParquetBuffer (src/src/parquet_buffer.rs): the reusable columnar    *)
(*     batch buffer, its column writes and the decimal encoders,           *)
(*   - write_decimal's choice of encoder, parse_time and the conversions   *)
(*     of time texts and timestamps (src/src/parquet_buffer.rs),           *)
(*   - the export's file splitting (batches_per_file), whose code is not   *)
(*     part of the sources at hand and is modelled from the specification. *)
(* Each component has its own specification; the variables of the other    *)
(* components stay at their idle values.                                   *)
(***************************************************************************)
EXTENDS Integers, Sequences, FiniteSets, TLC

(* ------------------------------ bounds --------------------------------- *)

\* Most columns of an input file of the insert job.
MaxColumns == 2
\* Most row groups of an input file of the insert job.
MaxRowGroups == 2
\* Largest declared length of a FIXED_LEN_BYTE_ARRAY column in the resolver's inputs.
MaxTypeLength == 2
\* Most rows of a batch the ParquetBuffer is resized for.
MaxRows == 2
\* Most digits of a decimal text handed to the decimal encoders.
MaxDigits == 3
\* Most rows of the query result of an export, largest batch_size and batches_per_file.
MaxInputRows == 4
MaxBatchSize == 2
MaxBatchesPerFile == 2
\* Most digits of the fraction of a time text.
MaxFractionDigits == 11

(* ------------------------- program constants --------------------------- *)

\* insert.rs:50  let batch_size = 500;
batch_size == 500
\* insert.rs:110  BufferKind::Text { max_str_len : 128 }
DefaultMaxStrLen == 128
\* parquet_buffer.rs:62  the 16 bytes of num.to_be_bytes(), num an i128
I128Bytes == 16
\* parquet_buffer.rs:115  if precision < 39
BigIntPrecision == 39

VARIABLES
    \* ---- insert job (insert.rs:19-81)
    pc,               \* position of the job in insert()
    schema,           \* column descriptors of the input file (schema_desc)
    row_groups,       \* num_rows of each row group of the input file
    column_buf_desc,  \* layouts resolved so far (the collect() of line 40-43)
    prepared,         \* TRUE once odbc_conn.prepare succeeded
    row_group_index,  \* loop variable of line 54 (0-based)
    column_index,     \* loop variable of line 60 (0-based)
    odbc_buffer,      \* the ColumnarRowSet: num_rows and the content of each column
    executed,         \* history: the batches handed to statement.execute that succeeded
    rg_read,          \* history: row group indices obtained by get_row_group
    exec_attempts,    \* history: row group indices statement.execute was called for
    failure,          \* history: the step that returned an error, and its row group
    \* ---- resolver applied to one column descriptor
    col_desc,         \* the input of parquet_type_to_odbc_buffer_desc
    buffer_desc,      \* its outcome
    \* ---- ParquetBuffer (parquet_buffer.rs:17-167)
    pb,               \* the ParquetBuffer: six value arrays and def_levels
    column_kinds,     \* the slot kinds of the columns written through the buffer
    cw,               \* the last cw.write_batch(values, def_levels) of the current batch,
                      \* and the buffer's def_levels as that write found them
    resized,          \* set by set_num_rows_fetched: its argument, def_levels before it
    \* ---- decimal encoders (parquet_buffer.rs:53-84)
    dpc,              \* which encoders have run on the text
    decimal,          \* the decimal text (the bytes of the CStr)
    length,           \* the target length in bytes
    digits,           \* the scratch vector shared by the calls (write_decimal, line 113)
    out_i128,         \* outcome of twos_complement_i128
    out_big_int,      \* outcome of twos_complement_big_int
    \* ---- write_decimal (parquet_buffer.rs:86-125)
    wd_pc,            \* whether write_decimal has encoded the item
    primitive_type,   \* type_length and precision of the column's primitive type
    decimal_item,     \* one decimal text of the column's source
    decimal_value,    \* outcome of the encoder write_decimal chose for the item
    \* ---- time texts (parquet_buffer.rs:171-197 and 270-289)
    t_pc,             \* which conversions have run on the text
    time_text,        \* the time text (the bytes of the CStr)
    naive_time,       \* outcome of parse_time
    time_millis,      \* outcome of IntoPhysical<i32> for &CStr
    time_micros,      \* outcome of IntoPhysical<i64> for &CStr
    \* ---- timestamps (parquet_buffer.rs:301-312)
    ts_pc,            \* whether the timestamp has been converted
    timestamp,        \* the Timestamp struct of the source
    timestamp_micros, \* outcome of IntoPhysical<i64> for &Timestamp
    \* ---- export with batches_per_file set (specification 4.2, step 3 and 4)
    q_pc,             \* position of the export job
    input_rows,       \* rows of the query result
    rows_left,        \* rows not fetched yet
    q_batch_size,     \* the job's batch_size
    batches_per_file, \* the job's batches_per_file
    fetched,          \* rows of the batch fetched and not yet flushed
    num_batch,        \* batches flushed so far
    files             \* the output files out_1, out_2, ... in the order they were opened

insert_vars == <<pc, schema, row_groups, column_buf_desc, prepared, row_group_index,
                 column_index, odbc_buffer, executed, rg_read, exec_attempts, failure>>
resolve_vars == <<col_desc, buffer_desc>>
buffer_vars == <<pb, column_kinds, cw, resized>>
decimal_vars == <<dpc, decimal, length, digits, out_i128, out_big_int>>
write_decimal_vars == <<wd_pc, primitive_type, decimal_item, decimal_value>>
time_vars == <<t_pc, time_text, naive_time, time_millis, time_micros>>
timestamp_vars == <<ts_pc, timestamp, timestamp_micros>>
query_vars == <<q_pc, input_rows, rows_left, q_batch_size, batches_per_file, fetched,
                num_batch, files>>
vars == <<insert_vars, resolve_vars, buffer_vars, decimal_vars, query_vars, write_decimal_vars, time_vars, timestamp_vars>>

(* ===================== 4.1 Type Mapping Resolver ======================= *)

\* parquet::basic::LogicalType, as enumerated by the match of insert.rs:108-143.
LogicalTypes ==
    {"UTF8", "NONE", "MAP", "MAP_KEY_VALUE", "LIST", "ENUM", "DECIMAL", "DATE",
     "TIME_MILLIS", "TIME_MICROS", "TIMESTAMP_MILLIS", "TIMESTAMP_MICROS",
     "UINT_8", "UINT_16", "UINT_32", "UINT_64", "INT_8", "INT_16", "INT_32",
     "INT_64", "JSON", "BSON", "INTERVAL"}

\* parquet::basic::Type (PhysicalType); one ColumnReader variant per member (insert.rs:63-74).
PhysicalTypes ==
    {"BOOLEAN", "INT32", "INT64", "INT96", "FLOAT", "DOUBLE", "BYTE_ARRAY",
     "FIXED_LEN_BYTE_ARRAY"}

\* What parquet_type_to_odbc_buffer_desc reads of a ColumnDescriptor.
ColumnDescriptors ==
    [is_primitive : BOOLEAN, is_optional : BOOLEAN, logical_type : LogicalTypes,
     physical_type : PhysicalTypes, type_length : 0..MaxTypeLength]

\* The three ways a call can end: Ok(BufferDescription), Err(..) through bail!, or a
\* panic (panic!, todo!) that unwinds through insert().
ResolveOk(kind, max_str_len, nullable) ==
    [outcome |-> "Ok", kind |-> kind, max_str_len |-> max_str_len, nullable |-> nullable]
ResolveErr ==
    [outcome |-> "Err", kind |-> "none", max_str_len |-> 0, nullable |-> FALSE]
ResolvePanic ==
    [outcome |-> "Panic", kind |-> "none", max_str_len |-> 0, nullable |-> FALSE]

\* insert.rs:96-146.
parquet_type_to_odbc_buffer_desc(cd) ==
    IF ~cd.is_primitive
    THEN ResolveErr                                           \* bail!, line 100-102
    ELSE CASE cd.logical_type = "UTF8" /\ cd.physical_type = "BYTE_ARRAY" ->
                ResolveOk("Text", DefaultMaxStrLen, cd.is_optional)      \* line 110
           [] cd.logical_type = "UTF8" /\ cd.physical_type = "FIXED_LEN_BYTE_ARRAY" ->
                ResolveOk("Text", cd.type_length, cd.is_optional)        \* line 111-114
           [] cd.logical_type = "INT_64" /\ cd.physical_type = "INT64" ->
                ResolveOk("I64", 0, cd.is_optional)                      \* line 115-117
           [] cd.logical_type = "UTF8"
              /\ cd.physical_type \notin {"BYTE_ARRAY", "FIXED_LEN_BYTE_ARRAY"} ->
                ResolvePanic                                             \* panic!, line 118-120
           [] OTHER -> ResolvePanic                                      \* todo!(), line 121-142

\* The (logical, physical) pairs the resolver has a layout for.
SupportedPair(cd) ==
    \/ cd.logical_type = "UTF8" /\ cd.physical_type \in {"BYTE_ARRAY", "FIXED_LEN_BYTE_ARRAY"}
    \/ cd.logical_type = "INT_64" /\ cd.physical_type = "INT64"

NoDescriptor ==
    [is_primitive |-> FALSE, is_optional |-> FALSE, logical_type |-> "NONE",
     physical_type |-> "BOOLEAN", type_length |-> 0]
NotResolved ==
    [outcome |-> "none", kind |-> "none", max_str_len |-> 0, nullable |-> FALSE]

ResolveIdle == col_desc = NoDescriptor /\ buffer_desc = NotResolved

InitResolve ==
    /\ col_desc \in ColumnDescriptors
    /\ buffer_desc = NotResolved

\* One call of the resolver on the chosen descriptor.
Resolve ==
    /\ buffer_desc.outcome = "none"
    /\ buffer_desc' = parquet_type_to_odbc_buffer_desc(col_desc)
    /\ UNCHANGED <<col_desc, insert_vars, buffer_vars, decimal_vars, query_vars, write_decimal_vars, time_vars, timestamp_vars>>

(* ============================ insert job =============================== *)

Utf8ByteArray ==
    [is_primitive |-> TRUE, is_optional |-> TRUE, logical_type |-> "UTF8",
     physical_type |-> "BYTE_ARRAY", type_length |-> 0]
Utf8FixedLen ==
    [is_primitive |-> TRUE, is_optional |-> FALSE, logical_type |-> "UTF8",
     physical_type |-> "FIXED_LEN_BYTE_ARRAY", type_length |-> MaxTypeLength]
Int64Column ==
    [is_primitive |-> TRUE, is_optional |-> TRUE, logical_type |-> "INT_64",
     physical_type |-> "INT64", type_length |-> 0]
\* The columns an input file of the insert job is drawn from: the three supported ones,
\* one of the panic! arm, one of the todo!() arm and one that is not primitive.
InsertColumns ==
    {Utf8ByteArray, Utf8FixedLen, Int64Column,
     [Int64Column EXCEPT !.logical_type = "UTF8"],
     [Int64Column EXCEPT !.logical_type = "NONE", !.physical_type = "INT32"],
     [Int64Column EXCEPT !.is_primitive = FALSE]}

\* num_rows of a row group: small, exactly the buffer's capacity, and one more.
RowCounts == {1, batch_size, batch_size + 1}

SeqsUpTo(S, n) == UNION {[1..k -> S] : k \in 0..n}

num_columns == Len(schema)
num_row_groups == Len(row_groups)

\* The content of one column of the ColumnarRowSet: nothing written to it yet, or the
\* values and null markers of a row group's column reader.
Unfilled == [filled |-> FALSE, row_group |-> -1, column |-> -1]
FilledFrom(rg, c) == [filled |-> TRUE, row_group |-> rg, column |-> c]

NoFailure == [step |-> "none", row_group |-> -1]
Failed(step, rg) == [step |-> step, row_group |-> rg]

NoBuffer == [num_rows |-> 0, columns |-> <<>>]

InsertIdle ==
    /\ pc = "idle"
    /\ schema = <<>>
    /\ row_groups = <<>>
    /\ column_buf_desc = <<>>
    /\ prepared = FALSE
    /\ row_group_index = 0
    /\ column_index = 0
    /\ odbc_buffer = NoBuffer
    /\ executed = <<>>
    /\ rg_read = <<>>
    /\ exec_attempts = <<>>
    /\ failure = NoFailure

InitInsert ==
    /\ pc = "open_connection"
    /\ schema \in SeqsUpTo(InsertColumns, MaxColumns) \ {<<>>}
    /\ row_groups \in SeqsUpTo(RowCounts, MaxRowGroups)
    /\ column_buf_desc = <<>>
    /\ prepared = FALSE
    /\ row_group_index = 0
    /\ column_index = 0
    /\ odbc_buffer = NoBuffer
    /\ executed = <<>>
    /\ rg_read = <<>>
    /\ exec_attempts = <<>>
    /\ failure = NoFailure

\* insert.rs:26  open_connection(odbc_env, connect_opts)?
OpenConnection ==
    /\ pc = "open_connection"
    /\ \/ pc' = "open_file" /\ UNCHANGED failure
       \/ pc' = "failed" /\ failure' = Failed("open_connection", -1)
    /\ UNCHANGED <<schema, row_groups, column_buf_desc, prepared, row_group_index,
                   column_index, odbc_buffer, executed, rg_read, exec_attempts>>
    /\ UNCHANGED <<resolve_vars, buffer_vars, decimal_vars, query_vars, write_decimal_vars, time_vars, timestamp_vars>>

\* insert.rs:28-33  File::open(&input)?; SerializedFileReader::new(file)?; the schema.
OpenFile ==
    /\ pc = "open_file"
    /\ \/ pc' = "resolve" /\ UNCHANGED failure
       \/ pc' = "failed" /\ failure' = Failed("open_file", -1)
    /\ UNCHANGED <<schema, row_groups, column_buf_desc, prepared, row_group_index,
                   column_index, odbc_buffer, executed, rg_read, exec_attempts>>
    /\ UNCHANGED <<resolve_vars, buffer_vars, decimal_vars, query_vars, write_decimal_vars, time_vars, timestamp_vars>>

\* A variant of ResolveColumns that binds a default text layout to a column the
\* resolver rejects, instead of ending the job.
ResolveColumnsLenient ==
    /\ pc = "resolve"
    /\ IF Len(column_buf_desc) < num_columns
       THEN LET r == parquet_type_to_odbc_buffer_desc(schema[Len(column_buf_desc) + 1])
            IN  /\ column_buf_desc' =
                      Append(column_buf_desc,
                             IF r.outcome = "Ok" THEN r
                             ELSE ResolveOk("Text", DefaultMaxStrLen, TRUE))
                /\ UNCHANGED <<pc, failure>>
       ELSE /\ pc' = "prepare"
            /\ UNCHANGED <<column_buf_desc, failure>>
    /\ UNCHANGED <<schema, row_groups, prepared, row_group_index, column_index,
                   odbc_buffer, executed, rg_read, exec_attempts>>
    /\ UNCHANGED <<resolve_vars, buffer_vars, decimal_vars, query_vars, write_decimal_vars, time_vars, timestamp_vars>>

\* insert.rs:40-43  the layouts, column by column; collect::<Result<_, _>>()? stops at
\* the first Err, and a panic of the resolver unwinds through insert().
ResolveColumns ==
    /\ pc = "resolve"
    /\ IF Len(column_buf_desc) < num_columns
       THEN LET r == parquet_type_to_odbc_buffer_desc(schema[Len(column_buf_desc) + 1])
            IN  CASE r.outcome = "Ok" ->
                       /\ column_buf_desc' = Append(column_buf_desc, r)
                       /\ UNCHANGED <<pc, failure>>
                  [] r.outcome = "Err" ->
                       /\ pc' = "failed"
                       /\ failure' = Failed("resolve", -1)
                       /\ UNCHANGED column_buf_desc
                  [] OTHER ->
                       /\ pc' = "panicked"
                       /\ failure' = Failed("resolve", -1)
                       /\ UNCHANGED column_buf_desc
       ELSE /\ pc' = "prepare"
            /\ UNCHANGED <<column_buf_desc, failure>>
    /\ UNCHANGED <<schema, row_groups, prepared, row_group_index, column_index,
                   odbc_buffer, executed, rg_read, exec_attempts>>
    /\ UNCHANGED <<resolve_vars, buffer_vars, decimal_vars, query_vars, write_decimal_vars, time_vars, timestamp_vars>>

\* insert.rs:44-52  the statement text, odbc_conn.prepare(..)?, and the buffers:
\* ColumnarRowSet::new(batch_size, column_buf_desc) holds no rows and nothing in its columns.
Prepare ==
    /\ pc = "prepare"
    /\ \/ /\ pc' = "row_group"
          /\ prepared' = TRUE
          /\ odbc_buffer' = [num_rows |-> 0, columns |-> [c \in 1..num_columns |-> Unfilled]]
          /\ UNCHANGED failure
       \/ /\ pc' = "failed"
          /\ failure' = Failed("prepare", -1)
          /\ UNCHANGED <<prepared, odbc_buffer>>
    /\ UNCHANGED <<schema, row_groups, column_buf_desc, row_group_index, column_index,
                   executed, rg_read, exec_attempts>>
    /\ UNCHANGED <<resolve_vars, buffer_vars, decimal_vars, query_vars, write_decimal_vars, time_vars, timestamp_vars>>

\* A variant of NextRowGroup whose loop leaves out the last row group.
NextRowGroupOffByOne ==
    /\ pc = "row_group"
    /\ IF row_group_index + 1 < num_row_groups
       THEN \/ /\ pc' = "column"
               /\ rg_read' = Append(rg_read, row_group_index)
               /\ odbc_buffer' = [odbc_buffer EXCEPT !.num_rows = row_groups[row_group_index + 1]]
               /\ column_index' = 0
               /\ UNCHANGED failure
            \/ /\ pc' = "failed"
               /\ failure' = Failed("get_row_group", row_group_index)
               /\ UNCHANGED <<rg_read, odbc_buffer, column_index>>
       ELSE /\ pc' = "done"
            /\ UNCHANGED <<rg_read, odbc_buffer, column_index, failure>>
    /\ UNCHANGED <<schema, row_groups, column_buf_desc, prepared, row_group_index,
                   executed, exec_attempts>>
    /\ UNCHANGED <<resolve_vars, buffer_vars, decimal_vars, query_vars, write_decimal_vars, time_vars, timestamp_vars>>

\* insert.rs:54-58  the head of the loop over 0..num_row_groups: get_row_group(index)?,
\* then odbc_buffer.set_num_rows(num_rows) with the row group's num_rows as it is: no
\* line of insert compares it with batch_size, and what the ColumnarRowSet (odbc-api)
\* does with a count above its capacity is not part of these sources, so num_rows
\* holds the count insert has set. After the last row group, Ok(()) (line 80).
NextRowGroup ==
    /\ pc = "row_group"
    /\ IF row_group_index < num_row_groups
       THEN \/ /\ pc' = "column"
               /\ rg_read' = Append(rg_read, row_group_index)
               /\ odbc_buffer' = [odbc_buffer EXCEPT !.num_rows = row_groups[row_group_index + 1]]
               /\ column_index' = 0
               /\ UNCHANGED failure
            \/ /\ pc' = "failed"
               /\ failure' = Failed("get_row_group", row_group_index)
               /\ UNCHANGED <<rg_read, odbc_buffer, column_index>>
       ELSE /\ pc' = "done"
            /\ UNCHANGED <<rg_read, odbc_buffer, column_index, failure>>
    /\ UNCHANGED <<schema, row_groups, column_buf_desc, prepared, row_group_index,
                   executed, exec_attempts>>
    /\ UNCHANGED <<resolve_vars, buffer_vars, decimal_vars, query_vars, write_decimal_vars, time_vars, timestamp_vars>>

\* The ColumnReader variant get_column_reader returns for a column: one per physical type.
ColumnReaderOf(cd) ==
    CASE cd.physical_type = "BOOLEAN" -> "BoolColumnReader"
      [] cd.physical_type = "INT32" -> "Int32ColumnReader"
      [] cd.physical_type = "INT64" -> "Int64ColumnReader"
      [] cd.physical_type = "INT96" -> "Int96ColumnReader"
      [] cd.physical_type = "FLOAT" -> "FloatColumnReader"
      [] cd.physical_type = "DOUBLE" -> "DoubleColumnReader"
      [] cd.physical_type = "BYTE_ARRAY" -> "ByteArrayColumnReader"
      [] OTHER -> "FixedLenByteArrayColumnReader"

\* insert.rs:63-74  the match on the column reader: what each arm leaves in the
\* columns of the batch. Every arm is empty (the Int64 arm holds a comment only).
MatchColumnReader(reader, columns, rg, c) ==
    CASE reader = "BoolColumnReader" -> columns
      [] reader = "Int32ColumnReader" -> columns
      [] reader = "Int64ColumnReader" -> columns
      [] reader = "Int96ColumnReader" -> columns
      [] reader = "FloatColumnReader" -> columns
      [] reader = "DoubleColumnReader" -> columns
      [] reader = "ByteArrayColumnReader" -> columns
      [] OTHER -> columns

\* insert.rs:60-75  one turn of the loop over the columns: get_column_reader(index)?
\* and the match; after the last column, on to the execute.
ReadColumn ==
    /\ pc = "column"
    /\ IF column_index < num_columns
       THEN \/ /\ odbc_buffer' =
                     [odbc_buffer EXCEPT !.columns =
                         MatchColumnReader(ColumnReaderOf(schema[column_index + 1]),
                                           odbc_buffer.columns, row_group_index,
                                           column_index)]
               /\ column_index' = column_index + 1
               /\ UNCHANGED <<pc, failure>>
            \/ /\ pc' = "failed"
               /\ failure' = Failed("get_column_reader", row_group_index)
               /\ UNCHANGED <<odbc_buffer, column_index>>
       ELSE /\ pc' = "execute"
            /\ UNCHANGED <<odbc_buffer, column_index, failure>>
    /\ UNCHANGED <<schema, row_groups, column_buf_desc, prepared, row_group_index,
                   executed, rg_read, exec_attempts>>
    /\ UNCHANGED <<resolve_vars, buffer_vars, decimal_vars, query_vars, write_decimal_vars, time_vars, timestamp_vars>>

\* A variant of Execute that logs a failed write and goes on with the next row group.
ExecuteSwallowingError ==
    /\ pc = "execute"
    /\ exec_attempts' = Append(exec_attempts, row_group_index)
    /\ \/ /\ executed' = Append(executed, [row_group |-> row_group_index,
                                           num_rows |-> odbc_buffer.num_rows,
                                           columns |-> odbc_buffer.columns])
          /\ UNCHANGED failure
       \/ /\ failure' = Failed("execute", row_group_index)
          /\ UNCHANGED executed
    /\ row_group_index' = row_group_index + 1
    /\ pc' = "row_group"
    /\ UNCHANGED <<schema, row_groups, column_buf_desc, prepared, column_index,
                   odbc_buffer, rg_read>>
    /\ UNCHANGED <<resolve_vars, buffer_vars, decimal_vars, query_vars, write_decimal_vars, time_vars, timestamp_vars>>

\* insert.rs:77  statement.execute(&odbc_buffer)?, then the next turn of the loop.
Execute ==
    /\ pc = "execute"
    /\ exec_attempts' = Append(exec_attempts, row_group_index)
    /\ \/ /\ executed' = Append(executed, [row_group |-> row_group_index,
                                           num_rows |-> odbc_buffer.num_rows,
                                           columns |-> odbc_buffer.columns])
          /\ row_group_index' = row_group_index + 1
          /\ pc' = "row_group"
          /\ UNCHANGED failure
       \/ /\ pc' = "failed"
          /\ failure' = Failed("execute", row_group_index)
          /\ UNCHANGED <<executed, row_group_index>>
    /\ UNCHANGED <<schema, row_groups, column_buf_desc, prepared, column_index,
                   odbc_buffer, rg_read>>
    /\ UNCHANGED <<resolve_vars, buffer_vars, decimal_vars, query_vars, write_decimal_vars, time_vars, timestamp_vars>>

NextInsert ==
    \/ OpenConnection
    \/ OpenFile
    \/ ResolveColumns
    \/ Prepare
    \/ NextRowGroup
    \/ ReadColumn
    \/ Execute

NextResolve == Resolve

(* ===================== 4.5 Columnar Batch Buffer ======================= *)

\* The slot kinds: the types BufferedDataType is implemented for (parquet_buffer.rs:203-255).
Kinds == {"i32", "i64", "f32", "f64", "bool", "ByteArray"}

\* parquet_buffer.rs:199-255  BufferedDataType::mut_buf: the value array of a slot
\* kind; every kind pairs it with the one def_levels array of the buffer.
mut_buf(kind) ==
    CASE kind = "i32" -> "values_i32"
      [] kind = "i64" -> "values_i64"
      [] kind = "f32" -> "values_f32"
      [] kind = "f64" -> "values_f64"
      [] kind = "bool" -> "values_bool"
      [] OTHER -> "values_bytes_array"

\* The element resize() fills a value array with (parquet_buffer.rs:45-50).
DefaultValue(field) ==
    CASE field = "values_bool" -> FALSE
      [] field = "values_bytes_array" -> <<>>
      [] OTHER -> 0

ValueArrays ==
    {"values_i32", "values_i64", "values_f32", "values_f64", "values_bytes_array",
     "values_bool"}

\* Vec::resize(new_len, value): truncates, or appends copies of value; the elements
\* that stay are left as they are.
Resize(vec, new_len, value) ==
    [i \in 1..new_len |-> IF i <= Len(vec) THEN vec[i] ELSE value]

\* parquet_buffer.rs:31-41  ParquetBuffer::new: seven empty vectors.
ParquetBufferNew ==
    [values_i32 |-> <<>>, values_i64 |-> <<>>, values_f32 |-> <<>>, values_f64 |-> <<>>,
     values_bytes_array |-> <<>>, values_bool |-> <<>>, def_levels |-> <<>>]

\* A variant of set_num_rows_fetched that leaves def_levels at its old length.
set_num_rows_fetched_without_def_levels(buffer, num_rows) ==
    [f \in DOMAIN buffer |->
        IF f = "def_levels" THEN buffer.def_levels
        ELSE Resize(buffer[f], num_rows, DefaultValue(f))]

\* parquet_buffer.rs:43-51  ParquetBuffer::set_num_rows_fetched.
set_num_rows_fetched(buffer, num_rows) ==
    [values_i32 |-> Resize(buffer.values_i32, num_rows, 0),
     values_i64 |-> Resize(buffer.values_i64, num_rows, 0),
     values_f32 |-> Resize(buffer.values_f32, num_rows, 0),
     values_f64 |-> Resize(buffer.values_f64, num_rows, 0),
     values_bytes_array |-> Resize(buffer.values_bytes_array, num_rows, <<>>),
     values_bool |-> Resize(buffer.values_bool, num_rows, FALSE),
     def_levels |-> Resize(buffer.def_levels, num_rows, 0)]

\* The source item of a row, by slot kind: an integer or float of the row, a Bit
\* (odd rows 1, even rows 0), or the bytes of a text. Rows differ in their items.
Item(kind, row) ==
    CASE kind = "bool" -> row % 2
      [] kind = "ByteArray" -> <<64 + row>>
      [] OTHER -> 10 + row

None(kind) == [some |-> FALSE, value |-> Item(kind, 0)]
Some(v) == [some |-> TRUE, value |-> v]

\* The source iterator of a column over a batch of n rows with the given validity.
Source(kind, present) ==
    [i \in DOMAIN present |-> IF present[i] THEN Some(Item(kind, i)) ELSE None(kind)]

\* parquet_buffer.rs:257-324  IntoPhysical::into_physical, the default transformation
\* of write_optional: a copy for the numeric kinds, Bit::as_bool, the bytes of a CStr.
into_physical(kind, item) ==
    CASE kind = "bool" -> item # 0
      [] OTHER -> item

Min(a, b) == IF a <= b THEN a ELSE b

\* A variant of the loop that stores a present item at its row, not at values_index.
RECURSIVE WriteLoopAtRow(_, _, _, _, _, _)
WriteLoopAtRow(kind, source, i, values, def_levels, values_index) ==
    IF i > Min(Len(source), Len(def_levels))
    THEN [values |-> values, def_levels |-> def_levels]
    ELSE IF source[i].some
         THEN WriteLoopAtRow(kind, source, i + 1,
                             [values EXCEPT ![i] = into_physical(kind, source[i].value)],
                             [def_levels EXCEPT ![i] = 1], values_index + 1)
         ELSE WriteLoopAtRow(kind, source, i + 1, values,
                             [def_levels EXCEPT ![i] = 0], values_index)

\* parquet_buffer.rs:138-147  the loop over source.zip(def_levels), from item i on
\* (1-based here; values_index counts the values stored so far).
RECURSIVE WriteLoop(_, _, _, _, _, _)
WriteLoop(kind, source, i, values, def_levels, values_index) ==
    IF i > Min(Len(source), Len(def_levels))
    THEN [values |-> values, def_levels |-> def_levels]
    ELSE IF source[i].some
         THEN WriteLoop(kind, source, i + 1,
                        [values EXCEPT ![values_index + 1] =
                            into_physical(kind, source[i].value)],
                        [def_levels EXCEPT ![i] = 1], values_index + 1)
         ELSE WriteLoop(kind, source, i + 1, values,
                        [def_levels EXCEPT ![i] = 0], values_index)

\* A variant of the loop that marks the present items and leaves the marker of a null
\* item as it finds it.
RECURSIVE WriteLoopMarkingPresent(_, _, _, _, _, _)
WriteLoopMarkingPresent(kind, source, i, values, def_levels, values_index) ==
    IF i > Min(Len(source), Len(def_levels))
    THEN [values |-> values, def_levels |-> def_levels]
    ELSE IF source[i].some
         THEN WriteLoopMarkingPresent(kind, source, i + 1,
                                      [values EXCEPT ![values_index + 1] =
                                          into_physical(kind, source[i].value)],
                                      [def_levels EXCEPT ![i] = 1], values_index + 1)
         ELSE WriteLoopMarkingPresent(kind, source, i + 1, values, def_levels,
                                      values_index)

\* A variant of write_optional_any whose loop marks the present items only.
write_optional_any_marking_present(buffer, kind, source) ==
    WriteLoopMarkingPresent(kind, source, 1, buffer[mut_buf(kind)], buffer.def_levels, 0)

\* A variant of write_optional_any that leaves each present item at its own row.
write_optional_any_at_row(buffer, kind, source) ==
    WriteLoopAtRow(kind, source, 1, buffer[mut_buf(kind)], buffer.def_levels, 0)

\* parquet_buffer.rs:127-150  write_optional_any: the two slices after the loop, which
\* are the buffer's arrays and what cw.write_batch(values, Some(&def_levels), None) gets.
write_optional_any(buffer, kind, source) ==
    WriteLoop(kind, source, 1, buffer[mut_buf(kind)], buffer.def_levels, 0)

NoWrite == [called |-> FALSE, kind |-> "none", source |-> <<>>, values |-> <<>>,
            def_levels |-> <<>>, def_levels_before |-> <<>>]
NoResize == [called |-> FALSE, num_rows |-> 0, def_levels_before |-> <<>>]

BufferIdle ==
    /\ pb = ParquetBufferNew
    /\ column_kinds = {}
    /\ cw = NoWrite
    /\ resized = NoResize

\* A job writes columns of one or two slot kinds through one buffer.
InitBuffer ==
    /\ pb = ParquetBufferNew
    /\ column_kinds \in {S \in SUBSET Kinds : Cardinality(S) \in {1, 2}}
    /\ cw = NoWrite
    /\ resized = NoResize

\* A batch of num_rows rows was fetched: pb.set_num_rows_fetched(num_rows).
SetNumRowsFetched ==
    /\ \E num_rows \in 0..MaxRows :
          /\ pb' = set_num_rows_fetched(pb, num_rows)
          /\ resized' = [called |-> TRUE, num_rows |-> num_rows,
                         def_levels_before |-> pb.def_levels]
    /\ cw' = NoWrite
    /\ UNCHANGED <<column_kinds, insert_vars, resolve_vars, decimal_vars, query_vars, write_decimal_vars, time_vars, timestamp_vars>>

\* A column of the batch is written: pb.write_optional(cw, source), the source
\* yielding one optional item per row of the batch the buffer was resized for.
WriteOptional ==
    /\ \E kind \in column_kinds :
       \E present \in [1..Len(pb.def_levels) -> BOOLEAN] :
          LET source == Source(kind, present)
              out == write_optional_any(pb, kind, source)
          IN  /\ pb' = [pb EXCEPT ![mut_buf(kind)] = out.values,
                                  !.def_levels = out.def_levels]
              /\ cw' = [called |-> TRUE, kind |-> kind, source |-> source,
                        values |-> out.values, def_levels |-> out.def_levels,
                        def_levels_before |-> pb.def_levels]
    /\ resized' = NoResize
    /\ UNCHANGED <<column_kinds, insert_vars, resolve_vars, decimal_vars, query_vars, write_decimal_vars, time_vars, timestamp_vars>>

NextBuffer ==
    \/ SetNumRowsFetched
    \/ WriteOptional

(* ========================= 4.3 Decimal Encoder ========================= *)

\* ASCII codes of the bytes of a decimal text.
Minus == 45
Plus == 43
Point == 46
Zero == 48

\* The digits the decimal texts are written with.
DecimalDigits == {0, 1, 2, 7, 8}

\* Decimal texts: an optional sign, one to MaxDigits digits, and at most one decimal
\* point, before, between or after the digits.
DigitStrings == UNION {[1..n -> {Zero + d : d \in DecimalDigits}] : n \in 1..MaxDigits}
WithPoint(ds, p) == SubSeq(ds, 1, p) \o <<Point>> \o SubSeq(ds, p + 1, Len(ds))
DecimalTexts ==
    {sign \o body :
        sign \in {<<>>, <<Minus>>, <<Plus>>},
        body \in DigitStrings \cup
                 UNION {{WithPoint(ds, p) : p \in 0..Len(ds)} : ds \in DigitStrings}}

\* atoi's digit loop from byte `index` on (1-based here): number * 10 + digit, or
\* - digit after a minus sign, up to the first byte that is no digit.
RECURSIVE ParseDigits(_, _, _, _)
ParseDigits(text, index, number, negative) ==
    IF index > Len(text) \/ text[index] < Zero \/ text[index] > Zero + 9
    THEN number
    ELSE ParseDigits(text, index + 1,
                     IF negative THEN number * 10 - (text[index] - Zero)
                     ELSE number * 10 + (text[index] - Zero),
                     negative)

\* parquet_buffer.rs:60 and 72  atoi::FromRadix10Signed::from_radix_10_signed, the
\* number it returns: an optional '+' or '-', then the digits. The same generic
\* function serves i128 and BigInt; an i128 holds every number of up to 38 digits.
from_radix_10_signed(text) ==
    IF text # <<>> /\ text[1] = Minus THEN ParseDigits(text, 2, 0, TRUE)
    ELSE IF text # <<>> /\ text[1] = Plus THEN ParseDigits(text, 2, 0, FALSE)
    ELSE ParseDigits(text, 1, 0, FALSE)

\* parquet_buffer.rs:57-58 and 69-70  digits.clear(); digits.extend(the bytes of the
\* text that are not b'.').
FillDigits(scratch, text) == SelectSeq(text, LAMBDA c : c # Point)

\* num >> (8 * j), arithmetic.
RECURSIVE ShiftRightBytes(_, _)
ShiftRightBytes(num, j) == IF j = 0 THEN num ELSE ShiftRightBytes(num \div 256, j - 1)

\* parquet_buffer.rs:62  i128::to_be_bytes: the 16 bytes of the two's complement, most
\* significant first.
to_be_bytes(num) == [i \in 1..I128Bytes |-> ShiftRightBytes(num, I128Bytes - i) % 256]

Encoded(bytes) == [ok |-> TRUE, bytes |-> bytes]
Panicked == [ok |-> FALSE, bytes |-> <<>>]
NotEncoded == [ok |-> FALSE, bytes |-> <<0>>]

\* parquet_buffer.rs:53-63  twos_complement_i128: the last `length` bytes of the 16;
\* 16 - length underflows for a length above 16 and the slice panics.
twos_complement_i128(text, len, scratch) ==
    LET num == from_radix_10_signed(FillDigits(scratch, text))
    IN  IF len > I128Bytes THEN Panicked
        ELSE Encoded(SubSeq(to_be_bytes(num), I128Bytes - len + 1, I128Bytes))

\* BigUint::to_bytes_be: the bytes of a magnitude, most significant first, without
\* leading zero bytes; one zero byte for zero.
RECURSIVE MagnitudeBytes(_)
MagnitudeBytes(m) ==
    IF m < 256 THEN <<m>> ELSE MagnitudeBytes(m \div 256) \o <<m % 256>>

\* num_bigint's twos_complement_be: from the least significant byte on, negate every
\* byte and add the carry.
RECURSIVE TwosComplementBe(_, _)
TwosComplementBe(bytes, carry) ==
    IF bytes = <<>> THEN <<>>
    ELSE LET negated == 255 - bytes[Len(bytes)]
             d == IF carry THEN (negated + 1) % 256 ELSE negated
         IN  TwosComplementBe(SubSeq(bytes, 1, Len(bytes) - 1), carry /\ d = 0) \o <<d>>

\* parquet_buffer.rs:73  BigInt::to_signed_bytes_be: the shortest two's complement of
\* num: the magnitude, a leading zero byte when its top bit is taken (unless num is
\* -128, -32768, ...), negated for a negative num.
to_signed_bytes_be(num) ==
    LET magnitude == MagnitudeBytes(IF num < 0 THEN -num ELSE num)
        first_byte == magnitude[1]
        extended ==
            IF first_byte > 127
               /\ ~(first_byte = 128
                    /\ (\A i \in 2..Len(magnitude) : magnitude[i] = 0)
                    /\ num < 0)
            THEN <<0>> \o magnitude
            ELSE magnitude
    IN  IF num < 0 THEN TwosComplementBe(extended, TRUE) ELSE extended

\* slice::rotate_right(k), k <= len: the last k elements come first.
RotateRight(vec, k) ==
    [i \in 1..Len(vec) |-> vec[((i - 1 - k + Len(vec)) % Len(vec)) + 1]]

\* A variant of twos_complement_big_int that pads with zero bytes whatever the sign.
twos_complement_big_int_zero_fill(text, len, scratch) ==
    LET num == from_radix_10_signed(FillDigits(scratch, text))
        out == to_signed_bytes_be(num)
    IN  IF Len(out) > len THEN Panicked
        ELSE Encoded(RotateRight(Resize(out, len, 0), len - Len(out)))

\* parquet_buffer.rs:65-84  twos_complement_big_int. length - out.len() is a usize:
\* when out is longer than length it panics on overflow (debug build), or wraps and
\* rotate_right panics on a count above the length (release build).
twos_complement_big_int(text, len, scratch) ==
    LET num == from_radix_10_signed(FillDigits(scratch, text))
        out == to_signed_bytes_be(num)
        fill == IF num < 0 THEN 255 ELSE 0
    IN  IF Len(out) > len THEN Panicked
        ELSE Encoded(RotateRight(Resize(out, len, fill), len - Len(out)))

DecimalIdle ==
    /\ dpc = "idle"
    /\ decimal = <<>>
    /\ length = 0
    /\ digits = <<>>
    /\ out_i128 = NotEncoded
    /\ out_big_int = NotEncoded

\* A text, a target length of 1 to 16 bytes, and the empty scratch vector of
\* parquet_buffer.rs:113.
InitDecimal ==
    /\ dpc = "start"
    /\ decimal \in DecimalTexts
    /\ length \in 1..I128Bytes
    /\ digits = <<>>
    /\ out_i128 = NotEncoded
    /\ out_big_int = NotEncoded

\* The text is encoded by twos_complement_i128, which leaves its digits in the scratch.
EncodeI128 ==
    /\ dpc = "start"
    /\ out_i128' = twos_complement_i128(decimal, length, digits)
    /\ digits' = FillDigits(digits, decimal)
    /\ dpc' = "i128"
    /\ UNCHANGED <<decimal, length, out_big_int>>
    /\ UNCHANGED <<insert_vars, resolve_vars, buffer_vars, query_vars, write_decimal_vars, time_vars, timestamp_vars>>

\* The same text is encoded by twos_complement_big_int, with the same scratch vector.
EncodeBigInt ==
    /\ dpc = "i128"
    /\ out_big_int' = twos_complement_big_int(decimal, length, digits)
    /\ digits' = FillDigits(digits, decimal)
    /\ dpc' = "done"
    /\ UNCHANGED <<decimal, length, out_i128>>
    /\ UNCHANGED <<insert_vars, resolve_vars, buffer_vars, query_vars, write_decimal_vars, time_vars, timestamp_vars>>

NextDecimal ==
    \/ EncodeI128
    \/ EncodeBigInt

(* ------------------- write_decimal: the choice of encoder -------------- *)

\* The precisions of the DECIMAL columns written: up to MaxDigits digits, the 38
\* digits that are the most of the i128 path and the 39 that are the fewest of the
\* BigInt path.
Precisions == (1..MaxDigits) \cup {BigIntPrecision - 1, BigIntPrecision}

\* parquet_buffer.rs:92-102  type_length of a DECIMAL column of a precision of 1 to 39
\* digits, as the parquet format sizes a FIXED_LEN_BYTE_ARRAY decimal: the fewest bytes
\* whose two's complement holds every number of that many digits.
TypeLengthOfPrecision ==
    <<1, 1, 2, 2, 3, 3, 4, 4, 4, 5, 5, 6, 6, 6, 7, 7, 8, 8, 9, 9, 9, 10, 10, 11, 11, 11,
      12, 12, 13, 13, 13, 14, 14, 15, 15, 16, 16, 16, 17>>

\* The primitive types handed to write_decimal (parquet_buffer.rs:90).
DecimalTypes ==
    {[type_length |-> TypeLengthOfPrecision[p], precision |-> p] : p \in Precisions}

\* The digits of a text without its leading zeros.
RECURSIVE SignificantDigits(_)
SignificantDigits(text) ==
    IF text = <<>> THEN <<>>
    ELSE IF Head(text) < Zero + 1 \/ Head(text) > Zero + 9
         THEN SignificantDigits(Tail(text))
         ELSE SelectSeq(text, LAMBDA c : c >= Zero /\ c <= Zero + 9)

\* The texts a column of a precision delivers: at most that many significant digits.
TextsOfPrecision(precision) ==
    {text \in DecimalTexts : Len(SignificantDigits(text)) <= precision}

\* A variant of write_decimal that uses twos_complement_i128 whatever the precision.
write_decimal_i128_only(item, type, scratch) ==
    twos_complement_i128(item, type.type_length, scratch)

\* parquet_buffer.rs:86-125  write_decimal, for one item of the source: length and
\* precision are taken from the primitive type (92-102), a precision below 39 goes to
\* twos_complement_i128 and any other to twos_complement_big_int (115-125).
write_decimal(item, type, scratch) ==
    IF type.precision < BigIntPrecision
    THEN twos_complement_i128(item, type.type_length, scratch)
    ELSE twos_complement_big_int(item, type.type_length, scratch)

WriteDecimalIdle ==
    /\ wd_pc = "idle"
    /\ primitive_type = [type_length |-> 0, precision |-> 0]
    /\ decimal_item = <<>>
    /\ decimal_value = NotEncoded

\* A DECIMAL column and one text of its source.
InitWriteDecimal ==
    /\ wd_pc = "start"
    /\ primitive_type \in DecimalTypes
    /\ decimal_item \in TextsOfPrecision(primitive_type.precision)
    /\ decimal_value = NotEncoded

\* write_decimal encodes the item with the scratch vector of line 113.
WriteDecimal ==
    /\ wd_pc = "start"
    /\ decimal_value' = write_decimal(decimal_item, primitive_type, <<>>)
    /\ wd_pc' = "done"
    /\ UNCHANGED <<primitive_type, decimal_item>>
    /\ UNCHANGED <<insert_vars, resolve_vars, buffer_vars, decimal_vars, query_vars, time_vars, timestamp_vars>>

NextWriteDecimal == WriteDecimal

(* ========================= 4.4 Temporal Encoder ======================== *)

\* A u32 as two 16-bit halves, hi * 2^16 + lo.
Half == 2 ^ 16
U32(hi, lo) == [hi |-> hi, lo |-> lo]
U32Value(n) == n.hi * Half + n.lo

\* atoi's digit loop for a u32 from byte `index` on (1-based here): number *= 10 and
\* number += digit for every digit up to the first byte that is none. The arithmetic
\* is the u32's own: past 2^32 - 1 it panics where overflow is checked (debug
\* profile) and wraps where it is not (release profile); `overflowed` records it.
RECURSIVE ParseU32(_, _, _, _)
ParseU32(text, index, number, overflowed) ==
    IF index > Len(text) \/ text[index] < Zero \/ text[index] > Zero + 9
    THEN [number |-> number, consumed |-> index - 1, overflowed |-> overflowed]
    ELSE LET lo == number.lo * 10 + (text[index] - Zero)
             hi == number.hi * 10 + (lo \div Half)
         IN  ParseU32(text, index + 1, U32(hi % Half, lo % Half),
                      overflowed \/ hi >= Half)

\* parquet_buffer.rs:175-180  u32::from_radix_10: the number and the count of bytes
\* it was read from.
from_radix_10(text) == ParseU32(text, 1, U32(0, 0), FALSE)

\* fraction / divisor for a u32 fraction and a divisor below 2^15.
DivU32(n, divisor) ==
    (n.hi \div divisor) * Half + ((n.hi % divisor) * Half + n.lo) \div divisor

TimePanic == [outcome |-> "panic", secs |-> 0, frac |-> 0]
NoTime == [outcome |-> "none", secs |-> 0, frac |-> 0]

\* chrono's NaiveTime::from_hms_nano: seconds since midnight and nanoseconds; panics
\* ("invalid time") unless hour < 24, min < 60, sec < 60 and nano < 2_000_000_000.
from_hms_nano(hour, min, sec, nano) ==
    IF hour >= 24 \/ min >= 60 \/ sec >= 60 \/ nano >= 2000000000 THEN TimePanic
    ELSE [outcome |-> "time", secs |-> hour * 3600 + min * 60 + sec, frac |-> nano]

\* parquet_buffer.rs:179-195  the nanoseconds of the fraction bytes[9..]. A fraction
\* of up to 9 digits is below 10^9 and cannot overflow.
FractionNanos(text, overflow_checks) ==
    LET parsed == from_radix_10(text)
        fraction == parsed.number
        precision == parsed.consumed
    IN  IF parsed.overflowed /\ overflow_checks THEN [panic |-> TRUE, nano |-> 0]
        ELSE IF precision <= 8
             THEN [panic |-> FALSE, nano |-> U32Value(fraction) * 10 ^ (9 - precision)]
        ELSE IF precision = 9
             THEN [panic |-> FALSE, nano |-> U32Value(fraction)]
        ELSE [panic |-> FALSE, nano |-> DivU32(fraction, 10 ^ (precision - 9))]

\* parquet_buffer.rs:171-197  parse_time. The slices bytes[0..2], bytes[3..5] and
\* bytes[6..8] panic on a text of fewer than 8 bytes; the fields are read up to their
\* first non-digit byte; the fraction is read when the text has more than 9 bytes.
parse_time(input, overflow_checks) ==
    IF Len(input) < 8 THEN TimePanic
    ELSE LET hour == U32Value(from_radix_10(SubSeq(input, 1, 2)).number)
             min == U32Value(from_radix_10(SubSeq(input, 4, 5)).number)
             sec == U32Value(from_radix_10(SubSeq(input, 7, 8)).number)
             nano == IF Len(input) > 9
                     THEN FractionNanos(SubSeq(input, 10, Len(input)), overflow_checks)
                     ELSE [panic |-> FALSE, nano |-> 0]
         IN  IF nano.panic THEN TimePanic ELSE from_hms_nano(hour, min, sec, nano.nano)

I32Panic == [outcome |-> "panic", value |-> 0]
NoI32 == [outcome |-> "none", value |-> 0]

\* An i64 count of microseconds, written seconds * 10^6 + micros with
\* 0 <= micros < 10^6.
I64Panic == [outcome |-> "panic", seconds |-> 0, micros |-> 0]
NoI64 == [outcome |-> "none", seconds |-> 0, micros |-> 0]

\* A variant of the conversion to milliseconds that rounds to the nearest one.
time_into_physical_i32_rounding(input, overflow_checks) ==
    LET time == parse_time(input, overflow_checks)
    IN  IF time.outcome = "panic" THEN I32Panic
        ELSE [outcome |-> "value",
              value |-> time.secs * 1000 + (time.frac + 500000) \div 1000000]

\* parquet_buffer.rs:270-279  IntoPhysical<i32> for &CStr: the Duration since midnight
\* has the time's seconds and its nanoseconds (which parse_time leaves below 10^9),
\* num_milliseconds is secs * 1000 + nanos / 1_000_000, which is below 86_400_000 and
\* fits the i32.
time_into_physical_i32(input, overflow_checks) ==
    LET time == parse_time(input, overflow_checks)
    IN  IF time.outcome = "panic" THEN I32Panic
        ELSE [outcome |-> "value", value |-> time.secs * 1000 + time.frac \div 1000000]

\* parquet_buffer.rs:282-289  IntoPhysical<i64> for &CStr: num_microseconds is
\* secs * 1_000_000 + nanos / 1000.
time_into_physical_i64(input, overflow_checks) ==
    LET time == parse_time(input, overflow_checks)
    IN  IF time.outcome = "panic" THEN I64Panic
        ELSE [outcome |-> "value", seconds |-> time.secs, micros |-> time.frac \div 1000]

\* ASCII codes of the bytes of a time text.
Colon == 58
LetterX == 120

TwoDigits(n) == <<Zero + (n \div 10), Zero + (n % 10)>>
TimeOfDay(hour, min, sec) ==
    TwoDigits(hour) \o <<Colon>> \o TwoDigits(min) \o <<Colon>> \o TwoDigits(sec)

\* Hours, and minutes and seconds, of the time texts: in range, and out of range.
HoursInRange == {0, 12, 23}
MinSecInRange == {<<0, 0>>, <<17, 51>>, <<59, 59>>}
HoursOutOfRange == {24, 99}
MinSecOutOfRange == {<<60, 0>>, <<0, 60>>, <<99, 99>>}

TimesOfDay == {TimeOfDay(h, ms[1], ms[2]) : h \in HoursInRange, ms \in MinSecInRange}

\* The fractions of the time texts: up to MaxFractionDigits digits, a run of one
\* digit followed by a run of another, and the leading digits of 1234567890123...
FractionDigits == {0, 1, 9}
Repeat(d, n) == [i \in 1..n |-> Zero + d]
RunsOfDigits ==
    {Repeat(a, i) \o Repeat(b, j) :
        a \in FractionDigits, b \in FractionDigits,
        i \in 0..MaxFractionDigits, j \in 0..MaxFractionDigits}
FractionTexts ==
    {f \in RunsOfDigits : Len(f) <= MaxFractionDigits}
    \cup {[i \in 1..n |-> Zero + (i % 10)] : n \in 0..MaxFractionDigits}

\* HH:MM:SS, HH:MM:SS. and HH:MM:SS.F...F
WellFormedTimeTexts ==
    TimesOfDay \cup {t \o <<Point>> \o f : t \in TimesOfDay, f \in FractionTexts}

\* Texts of fewer than 8 bytes, texts with a byte that is no digit in a field, and
\* texts with a field out of range.
ShortTimeTexts == {SubSeq(t, 1, n) : t \in TimesOfDay, n \in 0..7}
NonDigitTimeTexts ==
    {[t EXCEPT ![p] = c] : t \in TimesOfDay, p \in {1, 2, 4, 5, 7, 8}, c \in {LetterX, Minus}}
OutOfRangeTimeTexts ==
    {TimeOfDay(h, ms[1], ms[2]) : h \in HoursOutOfRange, ms \in MinSecInRange}
    \cup {TimeOfDay(h, ms[1], ms[2]) : h \in HoursInRange, ms \in MinSecOutOfRange}
MalformedTimeTexts == ShortTimeTexts \cup NonDigitTimeTexts \cup OutOfRangeTimeTexts

TimeIdle ==
    /\ t_pc = "idle"
    /\ time_text = <<>>
    /\ naive_time = NoTime
    /\ time_millis = NoI32
    /\ time_micros = NoI64

\* One text of a TIME column's source.
InitTime ==
    /\ t_pc = "start"
    /\ time_text \in WellFormedTimeTexts \cup MalformedTimeTexts
    /\ naive_time = NoTime
    /\ time_millis = NoI32
    /\ time_micros = NoI64

\* parse_time is applied to the text; the build checks u32 overflow or does not.
ParseTime ==
    /\ t_pc = "start"
    /\ \E overflow_checks \in BOOLEAN :
          naive_time' = parse_time(time_text, overflow_checks)
    /\ t_pc' = "parsed"
    /\ UNCHANGED <<time_text, time_millis, time_micros>>
    /\ UNCHANGED <<insert_vars, resolve_vars, buffer_vars, decimal_vars, query_vars, write_decimal_vars, timestamp_vars>>

\* The text is converted for a TIME_MILLIS column (write_optional, line 165).
TimeIntoI32 ==
    /\ t_pc = "parsed"
    /\ \E overflow_checks \in BOOLEAN :
          time_millis' = time_into_physical_i32(time_text, overflow_checks)
    /\ t_pc' = "i32"
    /\ UNCHANGED <<time_text, naive_time, time_micros>>
    /\ UNCHANGED <<insert_vars, resolve_vars, buffer_vars, decimal_vars, query_vars, write_decimal_vars, timestamp_vars>>

\* The text is converted for a TIME_MICROS column.
TimeIntoI64 ==
    /\ t_pc = "i32"
    /\ \E overflow_checks \in BOOLEAN :
          time_micros' = time_into_physical_i64(time_text, overflow_checks)
    /\ t_pc' = "done"
    /\ UNCHANGED <<time_text, naive_time, time_millis>>
    /\ UNCHANGED <<insert_vars, resolve_vars, buffer_vars, decimal_vars, query_vars, write_decimal_vars, timestamp_vars>>

NextTime ==
    \/ ParseTime
    \/ TimeIntoI32
    \/ TimeIntoI64

(* ------------------------------ timestamps ----------------------------- *)

\* An i64 count of nanoseconds, written (days * 86400 + sod) * 10^9 + ns with
\* 0 <= sod < 86400 and 0 <= ns < 10^9 (days may be negative): the count itself
\* exceeds the integers at hand. Counts compare as their triples do, days first.
Giga == 10 ^ 9
NormalizeNs(days, sod, ns) ==
    LET seconds == sod + (ns \div Giga)
    IN  [days |-> days + (seconds \div 86400), sod |-> seconds % 86400, ns |-> ns % Giga]

LessNs(a, b) ==
    \/ a.days < b.days
    \/ a.days = b.days /\ a.sod < b.sod
    \/ a.days = b.days /\ a.sod = b.sod /\ a.ns < b.ns

\* i64::MAX = 9223372036854775807, i64::MIN = -9223372036854775808 and 2^64 as counts
\* of nanoseconds.
I64Max == [days |-> 106751, sod |-> 85636, ns |-> 854775807]
I64Min == [days |-> -106752, sod |-> 763, ns |-> 145224192]
TwoPow64 == [days |-> 213503, sod |-> 84873, ns |-> 709551616]

\* The i64 a count wraps to where overflow is not checked: the count modulo 2^64.
RECURSIVE WrapI64(_)
WrapI64(n) ==
    IF LessNs(I64Max, n)
    THEN WrapI64(NormalizeNs(n.days - TwoPow64.days, n.sod - TwoPow64.sod,
                             n.ns - TwoPow64.ns))
    ELSE IF LessNs(n, I64Min)
    THEN WrapI64(NormalizeNs(n.days + TwoPow64.days, n.sod + TwoPow64.sod,
                             n.ns + TwoPow64.ns))
    ELSE n

\* An i64 count of microseconds, written (days * 86400 + sod) * 10^6 + micros.
Micros(days, sod, micros) ==
    LET seconds == sod + (micros \div 1000000)
    IN  [outcome |-> "value", days |-> days + (seconds \div 86400),
         sod |-> seconds % 86400, micros |-> micros % 1000000]
MicrosPanic == [outcome |-> "panic", days |-> 0, sod |-> 0, micros |-> 0]
NoMicros == [outcome |-> "none", days |-> 0, sod |-> 0, micros |-> 0]

\* parquet_buffer.rs:310  nanos / 1000 on an i64: the quotient is truncated towards
\* zero, which for a negative count is the next integer above.
DivideBy1000(n) ==
    IF n.days < 0 /\ n.ns % 1000 # 0
    THEN Micros(n.days, n.sod, (n.ns \div 1000) + 1)
    ELSE Micros(n.days, n.sod, n.ns \div 1000)

\* chrono: the days from 1970-01-01 to a date of the proleptic Gregorian calendar
\* (NaiveDate::from_ymd and the day count behind NaiveDateTime::timestamp).
num_days_from_epoch(year, month, day) ==
    LET y == IF month <= 2 THEN year - 1 ELSE year
        era == y \div 400
        yoe == y - era * 400
        mp == IF month > 2 THEN month - 3 ELSE month + 9
        doy == ((153 * mp + 2) \div 5) + day - 1
        doe == yoe * 365 + (yoe \div 4) - (yoe \div 100) + doy
    IN  era * 146097 + doe - 719468

\* parquet_buffer.rs:301-312  IntoPhysical<i64> for &Timestamp. timestamp_nanos() is
\* timestamp() * 1_000_000_000 + nanoseconds in i64: the product leaves the i64 for
\* seconds beyond +-9223372036, the sum for a count above i64::MAX; it then panics
\* where overflow is checked (debug profile) and wraps where it is not.
timestamp_into_physical(ts, overflow_checks) ==
    LET days == num_days_from_epoch(ts.year, ts.month, ts.day)
        sod == ts.hour * 3600 + ts.minute * 60 + ts.second
        nanos == [days |-> days, sod |-> sod, ns |-> ts.fraction]
        seconds == [days |-> days, sod |-> sod, ns |-> 0]
        product_overflows ==
            \/ LessNs([I64Max EXCEPT !.ns = 0], seconds)
            \/ LessNs(seconds, [days |-> I64Min.days, sod |-> I64Min.sod + 1, ns |-> 0])
        sum_overflows == LessNs(I64Max, nanos)
    IN  IF overflow_checks /\ (product_overflows \/ sum_overflows) THEN MicrosPanic
        ELSE DivideBy1000(WrapI64(nanos))

\* The timestamps of the source: valid dates from year 1 to 9999 around the epoch and
\* around the first and the last instant whose nanoseconds fit an i64
\* (1677-09-21 00:12:43.145224192 and 2262-04-11 23:47:16.854775807).
Years == {1, 1600, 1677, 1678, 1969, 1970, 1971, 2024, 2262, 2263, 9999}
Months == {1, 2, 4, 9, 12}
Days == {1, 11, 12, 20, 21, 29, 31}
ClockTimes ==
    {<<0, 0, 0>>, <<0, 12, 43>>, <<0, 12, 44>>, <<12, 17, 51>>, <<23, 47, 16>>,
     <<23, 47, 17>>, <<23, 59, 59>>}
TimestampFractions ==
    {0, 1, 999, 1000, 145224191, 145224192, 854775807, 854775808, 999999001, 999999999}

IsLeapYear(year) == year % 4 = 0 /\ (year % 100 # 0 \/ year % 400 = 0)
DaysInMonth(year, month) ==
    IF month = 2 THEN (IF IsLeapYear(year) THEN 29 ELSE 28)
    ELSE IF month \in {4, 6, 9, 11} THEN 30 ELSE 31

Timestamps ==
    {[year |-> y, month |-> m, day |-> d, hour |-> t[1], minute |-> t[2],
      second |-> t[3], fraction |-> f] :
        y \in Years, m \in Months, d \in Days, t \in ClockTimes, f \in TimestampFractions}
ValidTimestamps == {ts \in Timestamps : ts.day <= DaysInMonth(ts.year, ts.month)}

NoTimestamp ==
    [year |-> 0, month |-> 0, day |-> 0, hour |-> 0, minute |-> 0, second |-> 0,
     fraction |-> 0]

TimestampIdle ==
    /\ ts_pc = "idle"
    /\ timestamp = NoTimestamp
    /\ timestamp_micros = NoMicros

\* One item of a TIMESTAMP column's source.
InitTimestamp ==
    /\ ts_pc = "start"
    /\ timestamp \in ValidTimestamps
    /\ timestamp_micros = NoMicros

\* The timestamp is converted for a TIMESTAMP_MICROS column; the build checks i64
\* overflow or does not.
TimestampIntoI64 ==
    /\ ts_pc = "start"
    /\ \E overflow_checks \in BOOLEAN :
          timestamp_micros' = timestamp_into_physical(timestamp, overflow_checks)
    /\ ts_pc' = "done"
    /\ UNCHANGED timestamp
    /\ UNCHANGED <<insert_vars, resolve_vars, buffer_vars, decimal_vars, query_vars, write_decimal_vars, time_vars>>

NextTimestamp == TimestampIntoI64

(* ============== 4.2 step 4: splitting the export into files ============ *)

\* The export's code is not among the sources; this part follows the specification:
\* batches of up to batch_size rows are flushed in source order (4.2 step 3), a file is
\* closed once batches_per_file batches were flushed to it and the next number is
\* opened for the batch that follows (4.2 step 4), so that three rows with
\* batch_size = 1 and batches_per_file = 1 give exactly three files of one row (8).

QueryIdle ==
    /\ q_pc = "idle"
    /\ input_rows = 0
    /\ rows_left = 0
    /\ q_batch_size = 0
    /\ batches_per_file = 0
    /\ fetched = 0
    /\ num_batch = 0
    /\ files = <<>>

InitQuery ==
    /\ q_pc = "fetch"
    /\ input_rows \in 0..MaxInputRows
    /\ rows_left = input_rows
    /\ q_batch_size \in 1..MaxBatchSize
    /\ batches_per_file \in 1..MaxBatchesPerFile
    /\ fetched = 0
    /\ num_batch = 0
    /\ files = <<>>

\* The file being written: the last one opened, unless it is closed.
HasOpenFile == files # <<>> /\ ~files[Len(files)].closed

\* out_<number>: a new, open file without batches.
NewFile(number) == [number |-> number, batches |-> <<>>, closed |-> FALSE]

\* The next chunk of up to batch_size rows, or the end of the result.
FetchBatch ==
    /\ q_pc = "fetch"
    /\ IF rows_left > 0
       THEN /\ fetched' = Min(q_batch_size, rows_left)
            /\ rows_left' = rows_left - Min(q_batch_size, rows_left)
            /\ q_pc' = "flush"
       ELSE /\ q_pc' = "finish"
            /\ UNCHANGED <<fetched, rows_left>>
    /\ UNCHANGED <<input_rows, q_batch_size, batches_per_file, num_batch, files>>
    /\ UNCHANGED <<insert_vars, resolve_vars, buffer_vars, decimal_vars, write_decimal_vars, time_vars, timestamp_vars>>

\* A variant of FlushBatch that closes a file only after one batch more.
FlushBatchLateClose ==
    /\ q_pc = "flush"
    /\ LET opened == IF HasOpenFile THEN files ELSE Append(files, NewFile(Len(files) + 1))
           n == Len(opened)
           batch == [batch |-> num_batch + 1, rows |-> fetched]
           written == [opened EXCEPT ![n].batches = Append(@, batch)]
       IN  files' = IF Len(written[n].batches) > batches_per_file
                    THEN [written EXCEPT ![n].closed = TRUE]
                    ELSE written
    /\ num_batch' = num_batch + 1
    /\ fetched' = 0
    /\ q_pc' = "fetch"
    /\ UNCHANGED <<input_rows, rows_left, q_batch_size, batches_per_file>>
    /\ UNCHANGED <<insert_vars, resolve_vars, buffer_vars, decimal_vars, write_decimal_vars, time_vars, timestamp_vars>>

\* The fetched batch is flushed as one row group: to the open file, or to the next
\* number when none is open; the file is closed once it holds batches_per_file batches.
FlushBatch ==
    /\ q_pc = "flush"
    /\ LET opened == IF HasOpenFile THEN files ELSE Append(files, NewFile(Len(files) + 1))
           n == Len(opened)
           batch == [batch |-> num_batch + 1, rows |-> fetched]
           written == [opened EXCEPT ![n].batches = Append(@, batch)]
       IN  files' = IF Len(written[n].batches) = batches_per_file
                    THEN [written EXCEPT ![n].closed = TRUE]
                    ELSE written
    /\ num_batch' = num_batch + 1
    /\ fetched' = 0
    /\ q_pc' = "fetch"
    /\ UNCHANGED <<input_rows, rows_left, q_batch_size, batches_per_file>>
    /\ UNCHANGED <<insert_vars, resolve_vars, buffer_vars, decimal_vars, write_decimal_vars, time_vars, timestamp_vars>>

\* The end of the job: the file still open, if any, is closed.
FinishExport ==
    /\ q_pc = "finish"
    /\ files' = IF HasOpenFile THEN [files EXCEPT ![Len(files)].closed = TRUE] ELSE files
    /\ q_pc' = "done"
    /\ UNCHANGED <<input_rows, rows_left, q_batch_size, batches_per_file, fetched, num_batch>>
    /\ UNCHANGED <<insert_vars, resolve_vars, buffer_vars, decimal_vars, write_decimal_vars, time_vars, timestamp_vars>>

NextQuery ==
    \/ FetchBatch
    \/ FlushBatch
    \/ FinishExport

(* =========================== specifications ============================ *)

InitInsertJob == InitInsert /\ ResolveIdle /\ BufferIdle /\ DecimalIdle /\ QueryIdle /\ WriteDecimalIdle /\ TimeIdle /\ TimestampIdle
InitResolver == InitResolve /\ InsertIdle /\ BufferIdle /\ DecimalIdle /\ QueryIdle /\ WriteDecimalIdle /\ TimeIdle /\ TimestampIdle
InitParquetBuffer == InitBuffer /\ InsertIdle /\ ResolveIdle /\ DecimalIdle /\ QueryIdle /\ WriteDecimalIdle /\ TimeIdle /\ TimestampIdle
InitDecimalEncoders == InitDecimal /\ InsertIdle /\ ResolveIdle /\ BufferIdle /\ QueryIdle /\ WriteDecimalIdle /\ TimeIdle /\ TimestampIdle
InitExport == InitQuery /\ InsertIdle /\ ResolveIdle /\ BufferIdle /\ DecimalIdle /\ WriteDecimalIdle /\ TimeIdle /\ TimestampIdle
InitTimestampColumn == InitTimestamp /\ InsertIdle /\ ResolveIdle /\ BufferIdle /\ DecimalIdle /\ QueryIdle /\ WriteDecimalIdle /\ TimeIdle
InitTimeColumn == InitTime /\ InsertIdle /\ ResolveIdle /\ BufferIdle /\ DecimalIdle /\ QueryIdle /\ WriteDecimalIdle /\ TimestampIdle
InitDecimalColumn == InitWriteDecimal /\ InsertIdle /\ ResolveIdle /\ BufferIdle /\ DecimalIdle /\ QueryIdle /\ TimeIdle /\ TimestampIdle

SpecInsert == InitInsertJob /\ [][NextInsert]_vars
SpecResolve == InitResolver /\ [][NextResolve]_vars
SpecBuffer == InitParquetBuffer /\ [][NextBuffer]_vars
SpecDecimal == InitDecimalEncoders /\ [][NextDecimal]_vars
SpecQuery == InitExport /\ [][NextQuery]_vars
SpecWriteDecimal == InitDecimalColumn /\ [][NextWriteDecimal]_vars
SpecTime == InitTimeColumn /\ [][NextTime]_vars
SpecTimestamp == InitTimestampColumn /\ [][NextTimestamp]_vars

(* ============================== claims ================================= *)

\* How often x occurs in a sequence.
Count(seq, x) == Cardinality({i \in DOMAIN seq : seq[i] = x})

\* The encoded present items of a source, in row order, null rows skipped.
RECURSIVE PackedItems(_, _)
PackedItems(kind, source) ==
    IF source = <<>> THEN <<>>
    ELSE IF Head(source).some
         THEN <<into_physical(kind, Head(source).value)>> \o PackedItems(kind, Tail(source))
         ELSE PackedItems(kind, Tail(source))

NumPresent(source) == Cardinality({i \in DOMAIN source : source[i].some})

\* C1 (as claimed): the value array write_optional_any hands to the column writer has
\* as many entries as there are present items, holds exactly the encoded present items
\* in row order, and is shorter than the batch has rows when an item is null.
C1_ValueArrayIsPacked ==
    cw.called =>
        /\ Len(cw.values) = NumPresent(cw.source)
        /\ cw.values = PackedItems(cw.kind, cw.source)
        /\ (\E i \in DOMAIN cw.source : ~cw.source[i].some)
             => Len(cw.values) # Len(cw.source)

\* C1 (amended): for a source of one optional item per row of the batch, the value
\* array handed to the column writer is the whole value array of the buffer, as long
\* as the batch has rows, whatever the validity pattern; its
\* first k entries, k the number of present items and of markers 1 handed over with
\* it, are exactly the encoded present items in row order, null rows skipped.
C1_ValueArrayHasPackedPrefix ==
    cw.called =>
        /\ Len(cw.values) = Len(cw.source)
        /\ Len(cw.def_levels) = Len(cw.source)
        /\ Cardinality({i \in DOMAIN cw.def_levels : cw.def_levels[i] = 1})
             = NumPresent(cw.source)
        /\ SubSeq(cw.values, 1, NumPresent(cw.source)) = PackedItems(cw.kind, cw.source)

\* C1 witness: a column was written whose first row is null and whose second is present.
C1_Witness ==
    /\ cw.called
    /\ Len(cw.source) = 2
    /\ ~cw.source[1].some
    /\ cw.source[2].some

\* C2: whenever the parameterized statement is executed for a row group, every column
\* of the batch handed to it holds the values and null markers read from that row
\* group's column reader (no column reader variant is a silent no-op).
C2_ExecutedBatchIsFilled ==
    \A i \in DOMAIN executed :
        \A c \in 1..num_columns :
            executed[i].columns[c] = FilledFrom(executed[i].row_group, c - 1)

\* C3: the layout of every column is resolved before the statement is prepared, before
\* any row group is read and before any write; and once the resolution of a column has
\* failed the job has ended with no statement prepared, no row group read, no write.
C3_LayoutsResolvedFirst ==
    /\ (prepared \/ rg_read # <<>> \/ exec_attempts # <<>>
          \/ pc \in {"prepare", "row_group", "column", "execute", "done"})
        => /\ Len(column_buf_desc) = num_columns
           /\ \A c \in 1..num_columns :
                 /\ parquet_type_to_odbc_buffer_desc(schema[c]).outcome = "Ok"
                 /\ column_buf_desc[c] = parquet_type_to_odbc_buffer_desc(schema[c])
    /\ failure.step = "resolve"
        => /\ pc \in {"failed", "panicked"}
           /\ ~prepared
           /\ rg_read = <<>>
           /\ exec_attempts = <<>>
           /\ executed = <<>>

\* C3 witness: the resolution failed at the second column, after the first was resolved.
C3_Witness ==
    /\ failure.step = "resolve"
    /\ pc = "failed"
    /\ Len(column_buf_desc) = 1

\* C4: the resolver never panics; it returns an error value for every column that is
\* not primitive and for every primitive column outside the supported pairs, and a
\* layout only for UTF8/BYTE_ARRAY (text, 128), UTF8/FIXED_LEN_BYTE_ARRAY (text, the
\* declared length) and INT_64/INT64 (64-bit integer).
C4_UnsupportedIsAnError ==
    buffer_desc.outcome # "none" =>
        /\ buffer_desc.outcome # "Panic"
        /\ (~col_desc.is_primitive \/ ~SupportedPair(col_desc)) => buffer_desc.outcome = "Err"
        /\ buffer_desc.outcome = "Ok" =>
              /\ col_desc.is_primitive
              /\ \/ /\ col_desc.logical_type = "UTF8"
                    /\ col_desc.physical_type = "BYTE_ARRAY"
                    /\ buffer_desc.kind = "Text"
                    /\ buffer_desc.max_str_len = 128
                 \/ /\ col_desc.logical_type = "UTF8"
                    /\ col_desc.physical_type = "FIXED_LEN_BYTE_ARRAY"
                    /\ buffer_desc.kind = "Text"
                    /\ buffer_desc.max_str_len = col_desc.type_length
                 \/ /\ col_desc.logical_type = "INT_64"
                    /\ col_desc.physical_type = "INT64"
                    /\ buffer_desc.kind = "I64"

\* C5: the row groups are read, and their writes executed, in increasing index order,
\* one write per row group, each write done before the next row group is read; a job
\* that succeeds has executed as many writes as the file has row groups.
C5_RowGroupsInOrder ==
    /\ \A i \in DOMAIN rg_read : rg_read[i] = i - 1
    /\ \A i \in DOMAIN exec_attempts : exec_attempts[i] = i - 1
    /\ \A i \in DOMAIN executed : executed[i].row_group = i - 1
    /\ Len(executed) <= Len(exec_attempts)
    /\ Len(exec_attempts) <= Len(rg_read)
    /\ Len(rg_read) <= Len(executed) + 1
    /\ pc = "done" => Len(executed) = num_row_groups

\* C5 witness: a job over several row groups has succeeded.
C5_Witness ==
    /\ pc = "done"
    /\ num_row_groups >= 2
    /\ Len(executed) = num_row_groups

\* C6: once reading row group k, obtaining one of its column readers or executing its
\* write has failed, the job has ended with that error: the failed step was tried once,
\* the writes executed are those of the row groups before k, and the job never reports
\* success after a failed step.
C6_FailureEndsTheJob ==
    /\ failure.step # "none" => pc \in {"failed", "panicked"}
    /\ pc = "done" => failure = NoFailure
    /\ failure.step \in {"get_row_group", "get_column_reader", "execute"}
        => /\ pc = "failed"
           /\ Len(executed) = failure.row_group
           /\ \A i \in DOMAIN executed : executed[i].row_group < failure.row_group
           /\ Count(rg_read, failure.row_group)
                 = (IF failure.step = "get_row_group" THEN 0 ELSE 1)
           /\ Count(exec_attempts, failure.row_group)
                 = (IF failure.step = "execute" THEN 1 ELSE 0)
           /\ \A i \in DOMAIN exec_attempts : exec_attempts[i] <= failure.row_group

\* C6 witness: the write of the second row group failed after the first was written.
C6_Witness ==
    /\ failure = Failed("execute", 1)
    /\ pc = "failed"
    /\ Len(executed) = 1

\* C8 (as claimed): after set_num_rows_fetched(n) the six value arrays and the validity
\* array have length n and every validity marker is 0, also where a previous batch
\* had set it to 1.
C8_ResizeClearsValidity ==
    resized.called =>
        /\ \A f \in DOMAIN pb : Len(pb[f]) = resized.num_rows
        /\ \A i \in DOMAIN pb.def_levels : pb.def_levels[i] = 0

\* C8 (amended): after set_num_rows_fetched(n) the six value arrays and the validity
\* array have length n; the markers at positions beyond the previous length are 0, the
\* markers at positions within the previous length keep the value they had.
C8_ResizeKeepsOldMarkers ==
    resized.called =>
        /\ DOMAIN pb = ValueArrays \cup {"def_levels"}
        /\ \A f \in DOMAIN pb : Len(pb[f]) = resized.num_rows
        /\ \A i \in 1..resized.num_rows :
              pb.def_levels[i] = (IF i <= Len(resized.def_levels_before)
                                  THEN resized.def_levels_before[i] ELSE 0)

\* C8 witness: the buffer grew from one row, whose marker a write had set to 1, to two.
C8_Witness ==
    /\ resized.called
    /\ resized.num_rows = 2
    /\ resized.def_levels_before = <<1>>

\* The batch numbers of the files, file after file.
RECURSIVE BatchNumbers(_)
BatchNumbers(fs) ==
    IF fs = <<>> THEN <<>>
    ELSE [i \in DOMAIN Head(fs).batches |-> Head(fs).batches[i].batch]
         \o BatchNumbers(Tail(fs))

RECURSIVE SumRows(_)
SumRows(batches) == IF batches = <<>> THEN 0 ELSE Head(batches).rows + SumRows(Tail(batches))

\* What C9 says of the numbering, the order and the case batch_size = 1,
\* batches_per_file = 1: files are numbered 1, 2, 3, ... without a gap, a number is
\* opened only when all files before it are closed, the batches lie in the files in
\* source order, and N rows give N files of one row each.
FilesNumberedInSourceOrder ==
    /\ \A i \in DOMAIN files : files[i].number = i
    /\ \A i \in DOMAIN files : i < Len(files) => files[i].closed
    /\ \A i \in DOMAIN files :
          Len(files[i].batches) >= 1 /\ Len(files[i].batches) <= batches_per_file
    /\ BatchNumbers(files) = [i \in 1..num_batch |-> i]
    /\ q_pc = "done" =>
          /\ \A i \in DOMAIN files : files[i].closed
          /\ \A i \in DOMAIN files : SumRows(files[i].batches) >= 1
          /\ (q_batch_size = 1 /\ batches_per_file = 1) =>
                /\ Len(files) = input_rows
                /\ \A i \in DOMAIN files : SumRows(files[i].batches) = 1

DecimalNumber(text) == from_radix_10_signed(SelectSeq(text, LAMBDA c : c # Point))

\* Whether num is a two's-complement integer of len bytes. The numbers of the texts
\* above are below 2^31 in magnitude and fit in any four bytes or more.
FitsIn(num, len) ==
    \/ len >= 4
    \/ -(2 ^ (8 * len - 1)) <= num /\ num < 2 ^ (8 * len - 1)

\* C10 (as claimed): for every decimal text and every target length from 1 to 16
\* bytes, twos_complement_i128 and twos_complement_big_int return the same bytes.
C10_EncodersAgree ==
    dpc = "done" => out_i128 = out_big_int

\* C10 (amended): for every decimal text and every target length from 1 to 16 bytes
\* that holds the text's number as a two's-complement integer, the two encoders return
\* the same `length` bytes; for a number that does not fit, twos_complement_i128
\* returns its low `length` bytes and twos_complement_big_int panics.
C10_EncodersAgreeWhenNumberFits ==
    dpc = "done" =>
        IF FitsIn(DecimalNumber(decimal), length)
        THEN /\ out_i128.ok
             /\ out_big_int.ok
             /\ out_i128.bytes = out_big_int.bytes
             /\ Len(out_big_int.bytes) = length
        ELSE /\ out_i128.ok
             /\ Len(out_i128.bytes) = length
             /\ ~out_big_int.ok

\* C10 witness: both encoders have run on a negative text with a decimal point and a
\* target of 16 bytes, most of them sign bytes.
C10_Witness ==
    /\ dpc = "done"
    /\ length = I128Bytes
    /\ decimal[1] = Minus
    /\ \E i \in DOMAIN decimal : decimal[i] = Point
    /\ DecimalNumber(decimal) < -128
    /\ out_i128.ok
    /\ out_big_int.ok

\* C7: the number of rows set on the batch buffer is at most batch_size, the capacity
\* the buffer was allocated with, whatever the number of rows of a row group.
C7_RowsWithinBatchSize == odbc_buffer.num_rows <= batch_size

(* ------------------------------ C11 ------------------------------------ *)

\* The value of a string of digit bytes.
RECURSIVE ValueOfDigits(_)
ValueOfDigits(ds) ==
    IF ds = <<>> THEN 0
    ELSE ValueOfDigits(SubSeq(ds, 1, Len(ds) - 1)) * 10 + (ds[Len(ds)] - Zero)

\* The signed integer formed by the sign and the digits of a decimal text, the point
\* removed.
SignedInteger(text) ==
    LET magnitude == ValueOfDigits(SelectSeq(text, LAMBDA c : c >= Zero /\ c <= Zero + 9))
    IN  IF text[1] = Minus THEN -magnitude ELSE magnitude

\* The integer whose big-endian two's complement the bytes are.
RECURSIVE DecodeFrom(_, _, _)
DecodeFrom(bytes, index, acc) ==
    IF index > Len(bytes) THEN acc
    ELSE DecodeFrom(bytes, index + 1, acc * 256 + bytes[index])

DecodeBe(bytes) == DecodeFrom(bytes, 1, IF bytes[1] > 127 THEN -1 ELSE 0)

\* The length of the shortest two's complement of num.
ShortestLength(num) == CHOOSE n \in 1..4 : FitsIn(num, n) /\ \A m \in 1..(n - 1) : ~FitsIn(num, m)

\* C11: for every decimal text of a column and the column's type_length, the encoder
\* write_decimal chooses (twos_complement_i128 below precision 39, else
\* twos_complement_big_int) returns exactly type_length bytes whose big-endian two's
\* complement is the signed integer of the text's sign and digits; on the BigInt path
\* the bytes before the shortest two's complement of that integer are all 0x00 for a
\* non-negative value and all 0xFF for a negative one.
C11_WriteDecimalEncodesTheNumber ==
    wd_pc = "done" =>
        LET num == SignedInteger(decimal_item)
            bytes == decimal_value.bytes
        IN  /\ decimal_value.ok
            /\ Len(bytes) = primitive_type.type_length
            /\ DecodeBe(bytes) = num
            /\ primitive_type.precision >= BigIntPrecision =>
                   \A i \in 1..(Len(bytes) - ShortestLength(num)) :
                       bytes[i] = IF num < 0 THEN 255 ELSE 0

\* A negative number was encoded on the BigInt path and came out sign-extended.
C11_Witness ==
    /\ wd_pc = "done"
    /\ primitive_type.precision >= BigIntPrecision
    /\ SignedInteger(decimal_item) = -128
    /\ decimal_value.ok
    /\ decimal_value.bytes = [i \in 1..17 |-> IF i = 17 THEN 128 ELSE 255]

(* ------------------------------ C16 ------------------------------------ *)

\* C16: the one validity array of the buffer serves every slot kind, and yet the
\* def_levels a column's write hands to the column writer are the column's own: with a
\* source of as many items as the buffer has rows, marker i is 1 if and only if item i
\* of that source is present, whatever markers earlier columns or batches left.
C16_ValidityIsTheColumnsOwn ==
    cw.called =>
        /\ Len(cw.def_levels) = Len(cw.source)
        /\ \A i \in DOMAIN cw.source :
              cw.def_levels[i] = IF cw.source[i].some THEN 1 ELSE 0

\* A column of nulls was written over the markers 1 an earlier write had left in
\* every row.
C16_Witness ==
    /\ cw.called
    /\ cw.def_levels_before = <<1, 1>>
    /\ cw.def_levels = <<0, 0>>
    /\ \A i \in DOMAIN cw.source : ~cw.source[i].some

(* ------------------------- C12, C13 and C14 ---------------------------- *)

IsDigit(c) == c >= Zero /\ c <= Zero + 9
AllDigits(text) == \A i \in DOMAIN text : IsDigit(text[i])

\* The fields of a time text, read as two-digit numbers, and its fraction digits.
HourOf(text) == ValueOfDigits(SubSeq(text, 1, 2))
MinuteOf(text) == ValueOfDigits(SubSeq(text, 4, 5))
SecondOf(text) == ValueOfDigits(SubSeq(text, 7, 8))
FractionOf(text) == SubSeq(text, 10, Len(text))
SecondsOfDay(text) == HourOf(text) * 3600 + MinuteOf(text) * 60 + SecondOf(text)

\* The text does not match HH:MM:SS[.fraction] in one of these ways: it has fewer
\* than 8 bytes, a field has a byte that is no digit, or a field is out of range.
MalformedTime(text) ==
    \/ Len(text) < 8
    \/ ~AllDigits(SubSeq(text, 1, 2) \o SubSeq(text, 4, 5) \o SubSeq(text, 7, 8))
    \/ HourOf(text) > 23
    \/ MinuteOf(text) > 59
    \/ SecondOf(text) > 59

\* The text is HH:MM:SS, or HH:MM:SS. followed by digits.
WellFormedTime(text) ==
    /\ ~MalformedTime(text)
    /\ text[3] = Colon /\ text[6] = Colon
    /\ Len(text) > 8 => text[9] = Point /\ AllDigits(FractionOf(text))

\* The fraction, of 0 to 9 digits, right-padded with zeros to 9 digits.
PaddedNanos(fraction) == ValueOfDigits(fraction) * 10 ^ (9 - Len(fraction))

C13_ExtraDigitsAreDropped ==
    (t_pc # "start" /\ WellFormedTime(time_text) /\ Len(FractionOf(time_text)) > 9) =>
        /\ naive_time.outcome = "time"
        /\ naive_time.secs = SecondsOfDay(time_text)
        /\ naive_time.frac = ValueOfDigits(SubSeq(FractionOf(time_text), 1, 9))
        /\ naive_time.frac < 1000000000

\* C14: for every text that is shorter than 8 bytes, has a non-digit in a field, an
\* hour above 23 or a minute or second above 59, parse_time reports a decode failure as
\* an error outcome: it neither panics nor returns a time of day.
C14_MalformedIsAnError ==
    (t_pc # "start" /\ MalformedTime(time_text)) => naive_time.outcome = "error"

(* ------------------------------ C15 ------------------------------------ *)

\* The days from 0001-01-01 to the first day of a year, and to a date.
DaysBeforeYear(year) ==
    365 * (year - 1) + ((year - 1) \div 4) - ((year - 1) \div 100) + ((year - 1) \div 400)

RECURSIVE DaysBeforeMonth(_, _)
DaysBeforeMonth(year, month) ==
    IF month = 1 THEN 0
    ELSE DaysBeforeMonth(year, month - 1) + DaysInMonth(year, month - 1)

DaysSinceEpoch(ts) ==
    DaysBeforeYear(ts.year) + DaysBeforeMonth(ts.year, ts.month) + (ts.day - 1)
    - DaysBeforeYear(1970)

\* The nanoseconds from 1970-01-01T00:00:00 to the timestamp, divided by 1000 and
\* truncated (for a timestamp before the epoch, towards the epoch), as a count of
\* (days * 86400 + second of the day) * 10^6 + microseconds of the second.
ExactMicros(ts) ==
    LET days == DaysSinceEpoch(ts)
        sod == ts.hour * 3600 + ts.minute * 60 + ts.second
        whole == ts.fraction \div 1000
    IN  IF days >= 0 \/ ts.fraction % 1000 = 0
        THEN [outcome |-> "value", days |-> days, sod |-> sod, micros |-> whole]
        ELSE IF whole + 1 < 1000000
        THEN [outcome |-> "value", days |-> days, sod |-> sod, micros |-> whole + 1]
        ELSE IF sod + 1 < 86400
        THEN [outcome |-> "value", days |-> days, sod |-> sod + 1, micros |-> 0]
        ELSE [outcome |-> "value", days |-> days + 1, sod |-> 0, micros |-> 0]

\* C15: for every valid calendar timestamp, before or after 1970-01-01 and with a
\* fraction in nanoseconds, the conversion returns the exact number of nanoseconds
\* since the epoch divided by 1000 and truncated; the nanosecond count does not
\* overflow on the way.
C15_TimestampMicrosAreExact ==
    ts_pc = "done" => timestamp_micros = ExactMicros(timestamp)

====
